---- MODULE Spec2Model ----
(***************************************************************************)
(* Second Brain (answer_site/script.js): a single-page-per-document        *)
(* dashboard whose pages keep notes, projects, finances, a timetable and a *)
(* calendar in localStorage.  The model follows the script: the storage    *)
(* helpers, the appearance helpers, the DOMContentLoaded boot sequence,    *)
(* and one action per event handler of each page initializer.              *)
(*                                                                         *)
(* Text is a sequence of characters (one-character strings; a multi-letter *)
(* element such as "Infinity" or "#f2795c" is a lexeme that no operation   *)
(* of the script looks inside).  The empty string is << >>.                *)
(***************************************************************************)
EXTENDS Integers, Sequences, FiniteSets, TLC

(***************************************************************************)
(* Bounds of the model.                                                    *)
(***************************************************************************)
\* Items (notes, projects, tasks, finance rows, timetable and calendar
\* entries) the add handlers may have put in storage, all stores together.
MaxItems == 2

(***************************************************************************)
(* Strings.                                                                *)
(***************************************************************************)
SP == " "

RECURSIVE TrimStart(_)
TrimStart(s) ==
    IF s # << >> /\ Head(s) = SP THEN TrimStart(Tail(s)) ELSE s

RECURSIVE TrimEnd(_)
TrimEnd(s) ==
    IF s # << >> /\ s[Len(s)] = SP THEN TrimEnd(SubSeq(s, 1, Len(s) - 1)) ELSE s

\* String.prototype.trim
Trim(s) == TrimEnd(TrimStart(s))

\* The characters of an ISO date in code-unit order ("-" is U+002D, the
\* digits U+0030..U+0039).
CodeOrder == <<"-", "0", "1", "2", "3", "4", "5", "6", "7", "8", "9">>

CharCode(c) == CHOOSE i \in 1..Len(CodeOrder) : CodeOrder[i] = c

\* a < b on strings, as JavaScript compares them: code unit by code unit,
\* a proper prefix first.
RECURSIVE StrLess(_, _)
StrLess(a, b) ==
    IF b = << >> THEN FALSE
    ELSE IF a = << >> THEN TRUE
    ELSE IF Head(a) # Head(b) THEN CharCode(Head(a)) < CharCode(Head(b))
    ELSE StrLess(Tail(a), Tail(b))

StrGeq(a, b) == ~StrLess(a, b)

(***************************************************************************)
(* Numbers.  A JavaScript number is finite, an infinity or NaN; JSON adds  *)
(* null.  Amount texts are built from decimal digits, "-", letters and the *)
(* lexeme "Infinity".                                                      *)
(***************************************************************************)
Digits == <<"0", "1", "2", "3", "4", "5", "6", "7", "8", "9">>

IsDigit(c) == \E i \in 1..10 : Digits[i] = c

DigitVal(c) == (CHOOSE i \in 1..10 : Digits[i] = c) - 1

Fin(n) == [k |-> "fin", n |-> n]
Inf(sign) == [k |-> "inf", n |-> sign]
NaN == [k |-> "nan", n |-> 0]
JsonNull == [k |-> "null", n |-> 0]

\* Length of the longest prefix of s made of digits.
RECURSIVE DigitPrefixLen(_)
DigitPrefixLen(s) ==
    IF s # << >> /\ IsDigit(Head(s)) THEN 1 + DigitPrefixLen(Tail(s)) ELSE 0

\* Value of a string of digits.
RECURSIVE DigitsValue(_)
DigitsValue(s) ==
    IF s = << >> THEN 0
    ELSE 10 * DigitsValue(SubSeq(s, 1, Len(s) - 1)) + DigitVal(s[Len(s)])

\* parseFloat(text): leading white space skipped, an optional sign, then
\* "Infinity" or the longest run of digits; whatever follows is ignored.
\* NaN when no number starts the text.
parseFloat(text) ==
    LET s    == TrimStart(text)
        neg  == s # << >> /\ Head(s) = "-"
        body == IF neg THEN Tail(s) ELSE s
        sign == IF neg THEN -1 ELSE 1
        n    == DigitPrefixLen(body)
    IN  IF body # << >> /\ Head(body) = "Infinity" THEN Inf(sign)
        ELSE IF n = 0 THEN NaN
        ELSE Fin(sign * DigitsValue(SubSeq(body, 1, n)))

\* Number(text), the coercion isNaN applies to its argument: the whole
\* trimmed text must be a numeric literal; the empty text is 0.
ToNumber(text) ==
    LET s    == Trim(text)
        neg  == s # << >> /\ Head(s) = "-"
        body == IF neg THEN Tail(s) ELSE s
        sign == IF neg THEN -1 ELSE 1
    IN  IF s = << >> THEN Fin(0)
        ELSE IF body = <<"Infinity">> THEN Inf(sign)
        ELSE IF body # << >> /\ DigitPrefixLen(body) = Len(body)
             THEN Fin(sign * DigitsValue(body))
        ELSE NaN

isNaN(text) == ToNumber(text).k = "nan"

\* JSON.stringify of a number: a non-finite number is written as null.
JsonNumber(x) == IF x.k = "fin" THEN x ELSE JsonNull

\* parseFloat(item.amount) on an amount held in memory or read back from
\* JSON: a number reads as itself ("Infinity" too), null reads as NaN.
parseFloatOfAmount(x) == IF x.k = "null" THEN NaN ELSE x

\* x + y
Plus(x, y) ==
    IF x.k = "nan" \/ y.k = "nan" THEN NaN
    ELSE IF x.k = "inf" /\ y.k = "inf" THEN (IF x.n = y.n THEN x ELSE NaN)
    ELSE IF x.k = "inf" THEN x
    ELSE IF y.k = "inf" THEN y
    ELSE Fin(x.n + y.n)

\* -x
Negate(x) == IF x.k = "nan" THEN NaN ELSE [x EXCEPT !.n = -@]

\* x - y
Minus(x, y) == Plus(x, Negate(y))

\* x > 0
IsPositive(x) == x.k \in {"fin", "inf"} /\ x.n > 0

\* String(n) for a natural number n.
RECURSIVE NaturalDigits(_)
NaturalDigits(n) ==
    IF n < 10 THEN <<Digits[n + 1]>>
    ELSE NaturalDigits(n \div 10) \o <<Digits[(n % 10) + 1]>>

\* x.toFixed(2); the model's finite numbers are integers.
toFixed2(x) ==
    CASE x.k = "nan" -> <<"NaN">>
      [] x.k = "inf" -> (IF x.n < 0 THEN <<"-">> ELSE << >>) \o <<"Infinity">>
      [] OTHER -> (IF x.n < 0 THEN <<"-">> ELSE << >>)
                  \o NaturalDigits(IF x.n < 0 THEN -x.n ELSE x.n) \o <<".", "0", "0">>

\* A quotient n / d (d > 0), kept exact.
Quotient(n, d) == [k |-> "fin", n |-> n, d |-> d]

NaNRatio == [k |-> "nan", n |-> 0, d |-> 1]

\* Math.min(100, (expense / total) * 100), for total > 0.
RatioOf(expense, total) ==
    IF expense.k = "nan" \/ expense.k = "inf" THEN NaNRatio
    ELSE IF total.k = "inf" THEN Quotient(0, 1)
    ELSE IF expense.n * 100 > 100 * total.n THEN Quotient(100, 1)
    ELSE Quotient(expense.n * 100, total.n)

(***************************************************************************)
(* localStorage.  A key holds no text, or a text: JSON written by          *)
(* setStorage, or (put there by something else) the empty text or text     *)
(* that is not JSON.  val is the value the JSON text denotes.              *)
(***************************************************************************)
Keys == {"notes", "projects", "finances", "timetableEvents", "calendarEvents",
         "accentColor", "avatarLetter", "theme"}

DataKeys == {"notes", "projects", "finances", "timetableEvents", "calendarEvents"}

\* accentColor values: a string, a number (an import can put one there) or
\* null (getStorage's default).
StrVal(s) == [t |-> "str", s |-> s]
NumVal(s) == [t |-> "num", s |-> s]
NullVal == [t |-> "null", s |-> << >>]

\* The value a key's slot holds when there is no JSON value in it.
NoVal(key) ==
    CASE key = "accentColor" -> NullVal
      [] key = "theme" -> ""
      [] OTHER -> << >>

NoItem(key) == [kind |-> "missing", val |-> NoVal(key)]

\* JSON.stringify(value) of the value stored under key: every value the
\* script stores is written as it is, except that a finance amount that
\* is not a finite number is written as null.
JsonStringify(key, value) ==
    IF key = "finances"
    THEN [i \in 1..Len(value) |->
            [value[i] EXCEPT !.amount = JsonNumber(value[i].amount)]]
    ELSE value

\* getStorage with try/catch removed: a parse error escapes.
getStorageNoCatch(raw, defaultValue) ==
    IF raw.kind \in {"missing", "empty"} THEN [threw |-> FALSE, val |-> defaultValue]
    ELSE IF raw.kind = "corrupt" THEN [threw |-> TRUE, val |-> defaultValue]
    ELSE [threw |-> FALSE, val |-> raw.val]

\* getStorage(key, defaultValue), on the text raw that getItem(key) returns:
\* raw ? JSON.parse(raw) : defaultValue inside try, defaultValue from catch.
getStorageText(raw, defaultValue) ==
    IF raw.kind \in {"missing", "empty"} THEN [threw |-> FALSE, val |-> defaultValue]
    ELSE IF raw.kind = "corrupt" THEN [threw |-> FALSE, val |-> defaultValue]
    ELSE [threw |-> FALSE, val |-> raw.val]

getStorage(st, key, defaultValue) == getStorageText(st[key], defaultValue).val

\* setStorage(key, value)
setStorage(st, key, value) ==
    [st EXCEPT ![key] = [kind |-> "json", val |-> JsonStringify(key, value)]]

\* localStorage.clear()
ClearedStorage == [key \in Keys |-> NoItem(key)]

(***************************************************************************)
(* Dates.  The model stays within March 2024; a date is its day of month.  *)
(***************************************************************************)
\* String(n): the decimal digits of a day number.
ToDigits(n) ==
    IF n < 10 THEN <<Digits[n + 1]>>
    ELSE <<Digits[(n \div 10) + 1], Digits[(n % 10) + 1]>>

\* String(n).padStart(2, '0')
PadStart2(s) == IF Len(s) < 2 THEN <<"0">> \o s ELSE s

YearMonth == <<"2", "0", "2", "4", "-", "0", "3", "-">>

\* The calendar's cell key:
\* year + '-' + String(month + 1).padStart(2, '0') + '-' + String(day).padStart(2, '0')
CalendarDateStr(day) == YearMonth \o PadStart2(ToDigits(day))

\* date.toISOString().split('T')[0]: the timetable's formatDate, the home
\* page's today and the finance form's default date (the clock is read in
\* UTC; the model's days are UTC days).
formatDate(day) == YearMonth \o PadStart2(ToDigits(day))

\* Days the system clock may show when a page reads it.
ClockDays == {9, 10}

\* Calendar cells the user clicks.
CalendarDays == {9, 10}

\* The timetable shows WindowDays days from today; DayOffsets are the
\* columns the user uses.
WindowDays == 14
DayOffsets == {0, 1}

(***************************************************************************)
(* The document: the page it declares (body data-page) and the elements    *)
(* an initializer looks up by id.  At most one of them is absent.          *)
(***************************************************************************)
Pages == {"notes", "settings", "timetable", "calendar", "projects", "finances", "home"}

Elements(p) ==
    CASE p = "notes" -> {"notes-container", "add-note"}
      [] p = "settings" -> {"accent-input", "avatar-input", "theme-toggle-settings",
                            "export-data", "import-data", "import-file", "clear-data"}
      [] p = "timetable" -> {"timetable-container"}
      [] p = "calendar" -> {"month-name", "calendar-grid", "prev-month", "next-month"}
      [] p = "projects" -> {"projects-container", "add-project"}
      [] p = "finances" -> {"finance-form", "finance-rows", "income-total",
                            "expense-total", "net-total", "finance-progress"}
      [] p = "home" -> {"next-event", "tasks-summary", "finance-summary-home",
                        "digital-clock"}
      [] OTHER -> {}

VARIABLES
    storage,     \* localStorage: key -> text
    page,        \* the open document's page ("none": no document yet)
    missing,     \* the element id the document lacks, or "none"
    initOut,     \* how DOMContentLoaded ended: "ok", "threw" (the page
                 \* initializer raised), "dead" (it was never reached)
    today,       \* the clock day the timetable and home initializers read
    dataTheme,   \* documentElement's data-theme attribute
    cssAccent,   \* documentElement's inline --accent-color
    notes,       \* the notes initializer's notes
    projects,    \* the projects initializer's projects
    finances,    \* the finances initializer's finances
    ttEvents,    \* the timetable initializer's events
    calEvents,   \* the calendar initializer's events
    home,        \* what the home initializer wrote into its summary elements
    totals,      \* the finance page's summary cards and progress bar
    cards,       \* the items the open page's handlers were drawn for
    file,        \* the file the import FileReader is reading
    got,         \* a direct call of getStorage: its arguments and its result
    tabB,        \* a second tab showing the notes page: whether it is open, its notes
    last         \* the last handler that ran and how it ended

vars == <<storage, page, missing, initOut, today, dataTheme, cssAccent, notes,
          projects, finances, ttEvents, calEvents, home, totals, cards, file, got, tabB, last>>

mems == <<notes, projects, finances, ttEvents, calEvents>>

root == <<dataTheme, cssAccent>>

document == <<page, missing, initOut, today>>

(***************************************************************************)
(* Theme and appearance helpers.  A helper takes and returns a world w:    *)
(* st (localStorage), theme (data-theme), css (inline --accent-color) and  *)
(* threw (an exception is propagating: nothing after it runs).             *)
(***************************************************************************)
World(st, theme, css) == [st |-> st, theme |-> theme, css |-> css, threw |-> FALSE]

\* applyTheme(theme)
applyTheme(w, theme) ==
    [w EXCEPT !.theme = theme, !.st = setStorage(w.st, "theme", theme)]

\* toggleTheme()
toggleTheme(w) ==
    LET current == IF w.theme # "" THEN w.theme ELSE "light"
        next    == IF current = "dark" THEN "light" ELSE "dark"
    IN  applyTheme(w, next)

\* initTheme(): the saved theme, else the system preference.
initTheme(w, prefersDark) ==
    LET saved == getStorage(w.st, "theme", "")
        theme == IF saved # "" THEN saved
                 ELSE IF prefersDark THEN "dark" ELSE "light"
    IN  applyTheme(w, theme)

\* hexToRgb(hex) starts with hex.replace('#', ''), a TypeError unless hex
\* is a string; on a string it returns channels for any text.
hexToRgbThrows(hex) == hex.t # "str"

\* mixWithWhite(hex, ratio) calls hexToRgb(hex) first.
mixWithWhiteThrows(hex) == hexToRgbThrows(hex)

\* The stylesheet's --accent-color.
CssDefaultAccent == <<"#f2795c">>

\* getComputedStyle(documentElement).getPropertyValue('--accent-color').trim():
\* the inline value when one is set, else the stylesheet's.
ComputedAccent(css) == Trim(IF css = << >> THEN CssDefaultAccent ELSE css)

\* applyAccentColor(color): set --accent-color, compute the four tints
\* (mixWithWhite), then persist.
applyAccentColor(w, color) ==
    LET painted == [w EXCEPT !.css = color.s]
    IN  IF mixWithWhiteThrows(color) THEN [painted EXCEPT !.threw = TRUE]
        ELSE [painted EXCEPT !.st = setStorage(w.st, "accentColor", color)]

\* applyAvatarLetter(letter)
applyAvatarLetter(w, letter) ==
    [w EXCEPT !.st = setStorage(w.st, "avatarLetter", letter)]

\* Truthiness of an accentColor value (the number an import brings is not 0).
AccentTruthy(c) == (c.t = "str" /\ c.s # << >>) \/ c.t = "num"

\* initAppearance()
initAppearance(w) ==
    LET storedColor  == getStorage(w.st, "accentColor", NullVal)
        coloured     == IF AccentTruthy(storedColor)
                        THEN applyAccentColor(w, storedColor)
                        ELSE applyAccentColor(w, StrVal(ComputedAccent(w.css)))
        storedLetter == getStorage(coloured.st, "avatarLetter", << >>)
    IN  IF coloured.threw THEN coloured
        ELSE IF storedLetter # << >> THEN applyAvatarLetter(coloured, storedLetter)
        ELSE coloured

\* The DOMContentLoaded listener up to the page initializer, in a fresh
\* document: initTheme(); initAppearance(); initNavigation().
Boot(st, prefersDark) == initAppearance(initTheme(World(st, "", << >>), prefersDark))

(***************************************************************************)
(* The finance totals, as the finance page's render and the home page      *)
(* compute them.                                                           *)
(***************************************************************************)
\* finances.forEach(item => { if (item.type === 'income') income +=
\* parseFloat(item.amount); else expense += parseFloat(item.amount) })
RECURSIVE Sums(_, _, _)
Sums(list, income, expense) ==
    IF list = << >> THEN [income |-> income, expense |-> expense]
    ELSE IF Head(list).type = "income"
         THEN Sums(Tail(list), Plus(income, parseFloatOfAmount(Head(list).amount)), expense)
         ELSE Sums(Tail(list), income, Plus(expense, parseFloatOfAmount(Head(list).amount)))

\* const net = income - expense
Net(list) == LET t == Sums(list, Fin(0), Fin(0)) IN Minus(t.income, t.expense)

\* The pound sign the totals are prefixed with.
PoundSign == "GBP"

\* '£' + x.toFixed(2)
Pounds(x) == <<PoundSign>> \o toFixed2(x)

\* let ratio = 0; const total = income + expense;
\* if (total > 0) ratio = Math.min(100, (expense / total) * 100)
Progress(income, expense) ==
    LET total == Plus(income, expense)
    IN  IF IsPositive(total) THEN RatioOf(expense, total) ELSE Quotient(0, 1)

NoWidth == [k |-> "none", n |-> 0, d |-> 1]

NoTotals == [income |-> << >>, expense |-> << >>, net |-> << >>, width |-> NoWidth]

\* render() of the finances page in a document lacking element m: the
\* cards and the bar are written in turn (income, expense, net, width),
\* and a write into an absent element raises, leaving the rest as shown.
FinancesRender(list, m, shown) ==
    LET t   == Sums(list, Fin(0), Fin(0))
        inc == Pounds(t.income)
        exp == Pounds(t.expense)
        net == Pounds(Net(list))
    IN  IF m \in {"finance-rows", "income-total"} THEN shown
        ELSE IF m = "expense-total" THEN [shown EXCEPT !.income = inc]
        ELSE IF m = "net-total" THEN [shown EXCEPT !.income = inc, !.expense = exp]
        ELSE IF m = "finance-progress"
             THEN [shown EXCEPT !.income = inc, !.expense = exp, !.net = net]
        ELSE [income |-> inc, expense |-> exp, net |-> net,
              width |-> Progress(t.income, t.expense)]

(***************************************************************************)
(* The home page's summaries.  A date-keyed store is a JavaScript object:  *)
(* a sequence of entries [k |-> date string, v |-> list], in insertion     *)
(* order, which is the order Object.keys and Object.values give for keys   *)
(* that are not array indices and the order JSON keeps.                    *)
(***************************************************************************)
NoEvent == [found |-> FALSE, date |-> << >>, title |-> << >>]

\* events[dateStr].forEach with <= for <: a later event of the same date
\* replaces the one found.
RECURSIVE ScanDayLast(_, _, _)
ScanDayLast(list, dateStr, upcoming) ==
    IF list = << >> THEN upcoming
    ELSE LET candidate == [found |-> TRUE, date |-> dateStr, title |-> Head(list).title]
         IN  ScanDayLast(Tail(list), dateStr,
                 IF ~upcoming.found \/ ~StrLess(upcoming.date, candidate.date)
                 THEN candidate ELSE upcoming)

\* events[dateStr].forEach(ev => { if (!upcoming || candidate.date <
\* upcoming.date) upcoming = candidate })
RECURSIVE ScanDay(_, _, _)
ScanDay(list, dateStr, upcoming) ==
    IF list = << >> THEN upcoming
    ELSE LET candidate == [found |-> TRUE, date |-> dateStr, title |-> Head(list).title]
         IN  ScanDay(Tail(list), dateStr,
                 IF ~upcoming.found \/ StrLess(candidate.date, upcoming.date)
                 THEN candidate ELSE upcoming)

\* Object.keys(events).forEach(dateStr => { if (dateStr >= today) ... })
RECURSIVE ScanEvents(_, _, _)
ScanEvents(events, todayStr, upcoming) ==
    IF events = << >> THEN upcoming
    ELSE ScanEvents(Tail(events), todayStr,
             IF StrGeq(Head(events).k, todayStr)
             THEN ScanDay(Head(events).v, Head(events).k, upcoming)
             ELSE upcoming)

\* The home page's next event, from the calendarEvents store.
NextEvent(events, todayStr) == ScanEvents(events, todayStr, NoEvent)

\* list.forEach(item => { if (!item.done) pending++ })
RECURSIVE CountList(_, _)
CountList(list, pending) ==
    IF list = << >> THEN pending
    ELSE CountList(Tail(list), IF ~Head(list).done THEN pending + 1 ELSE pending)

\* The count with the test on done dropped.
RECURSIVE CountAll(_, _)
CountAll(tEvents, pending) ==
    IF tEvents = << >> THEN pending
    ELSE CountAll(Tail(tEvents), pending + Len(Head(tEvents).v))

\* Object.values(tEvents).forEach(list => list.forEach(...))
RECURSIVE CountPending(_, _)
CountPending(tEvents, pending) ==
    IF tEvents = << >> THEN pending
    ELSE CountPending(Tail(tEvents), CountList(Head(tEvents).v, pending))

\* The home page's pending-task count, from the timetableEvents store.
PendingTasks(tEvents) == CountPending(tEvents, 0)

NoHome == [written |-> 0, next |-> NoEvent, pending |-> 0, net |-> << >>]

\* pageInitializers['home'] up to the world clock: each summary is computed
\* and written into its element; a missing element raises a TypeError
\* there and the rest never runs.  written counts the summaries written.
HomeSummary(st, m, clockDay) ==
    LET next    == NextEvent(getStorage(st, "calendarEvents", << >>), formatDate(clockDay))
        pending == PendingTasks(getStorage(st, "timetableEvents", << >>))
        net     == <<"Net balance: ">> \o Pounds(Net(getStorage(st, "finances", << >>)))
    IN  IF m = "next-event" THEN NoHome
        ELSE IF m = "tasks-summary"
             THEN [NoHome EXCEPT !.written = 1, !.next = next]
        ELSE IF m = "finance-summary-home"
             THEN [NoHome EXCEPT !.written = 2, !.next = next, !.pending = pending]
        ELSE [written |-> 3, next |-> next, pending |-> pending, net |-> net]

(***************************************************************************)
(* Import files.  A file is text that is not JSON ("corrupt"), the JSON    *)
(* text null, or a JSON object; each of the object's eight properties is   *)
(* absent, null, or a value.                                               *)
(***************************************************************************)
Absent(key) == [st |-> "absent", val |-> NoVal(key)]
Null(key) == [st |-> "null", val |-> NoVal(key)]
Value(v) == [st |-> "value", val |-> v]

EmptyObject == [key \in Keys |-> Absent(key)]

NoFile == [kind |-> "none", data |-> EmptyObject]

\* last: the handler that ran, how it ended ("ok", "cancel", "alert",
\* "threw") and, for the handlers that take input, what the user entered.
NoArgs == << >>

DoneWith(op, out, args) == last' = [op |-> op, out |-> out, args |-> args]

Done(op, out) == DoneWith(op, out, NoArgs)

(***************************************************************************)
(* What a page draws.  A render builds one card (row, list item, cell      *)
(* entry) per item, each with handlers that remember the item's position.  *)
(***************************************************************************)
NoCards == << >>

\* The cards of page p, when it is the open page.
Cards(p) == IF page = p THEN cards ELSE NoCards

\* The cards left as they were: a handler that does not draw again.
NoRerender(collection, shown) == shown

\* render(), called again by a handler after it saved: the cards are
\* rebuilt from the collection.
Rerender(collection, shown) == collection

\* A card of a date-keyed page: the item at position idx of the day key.
HasCard(key, idx) ==
    \E c \in 1..Len(cards) : cards[c].k = key /\ idx \in 1..Len(cards[c].v)

\* renderDay(key, list): the day's items are drawn again from events[key].
RenderDay(shown, events, key) ==
    LET list == IF \E e \in 1..Len(events) : events[e].k = key
                THEN events[CHOOSE e \in 1..Len(events) : events[e].k = key].v
                ELSE << >>
    IN  IF \E c \in 1..Len(shown) : shown[c].k = key
        THEN [c \in 1..Len(shown) |->
                 IF shown[c].k = key THEN [k |-> key, v |-> list] ELSE shown[c]]
        ELSE Append(shown, [k |-> key, v |-> list])

\* li.classList.toggle('completed') on the card of an item.
ToggleCard(shown, key, idx) ==
    [c \in 1..Len(shown) |->
        IF shown[c].k = key THEN [shown[c] EXCEPT !.v[idx].done = ~@] ELSE shown[c]]

\* project.tasks is there (an imported project may come without it).
HasTasks(project) == "tasks" \in DOMAIN project

\* The project cards render() draws: project.tasks.length raises on a
\* project without tasks, after the cards of the projects before it.
RECURSIVE DrawnProjects(_)
DrawnProjects(list) ==
    IF list = << >> \/ ~HasTasks(Head(list)) THEN << >>
    ELSE <<Head(list)>> \o DrawnProjects(Tail(list))

\* The cards the first render of page p draws in a document lacking m.
FirstCards(p, m, clockDay, collection) ==
    CASE p = "notes" ->
            IF m \in {"notes-container", "add-note"} THEN NoCards ELSE collection
      [] p = "projects" ->
            IF m = "projects-container" THEN NoCards ELSE DrawnProjects(collection)
      [] p = "finances" -> IF m = "finance-rows" THEN NoCards ELSE collection
      [] p = "timetable" ->
            IF m = "timetable-container" THEN NoCards
            ELSE SelectSeq(collection,
                     LAMBDA entry : \E i \in 0..(WindowDays - 1) :
                                        formatDate(clockDay + i) = entry.k)
      [] p = "calendar" ->
            IF m \in {"calendar-grid", "month-name"} THEN NoCards ELSE collection
      [] OTHER -> NoCards

(***************************************************************************)
(* Page load: DOMContentLoaded in a fresh document.                        *)
(***************************************************************************)
\* How pageInitializers[p]() ends in a document that lacks element m.
\* notes: addBtn.addEventListener or render's container.innerHTML raises;
\* settings guards every element; timetable returns when its container is
\* absent; calendar, projects, finances and home use every element they
\* look up without a check.
PageInitOutcome(p, m) ==
    CASE p = "notes" -> IF m \in {"notes-container", "add-note"} THEN "threw" ELSE "ok"
      [] p = "settings" -> "ok"
      [] p = "timetable" -> "ok"
      [] p = "calendar" ->
            IF m \in {"month-name", "calendar-grid", "prev-month", "next-month"}
            THEN "threw" ELSE "ok"
      [] p = "projects" ->
            IF m \in {"projects-container", "add-project"} THEN "threw" ELSE "ok"
      [] p = "finances" ->
            IF m \in {"finance-form", "finance-rows", "income-total",
                      "expense-total", "net-total", "finance-progress"}
            THEN "threw" ELSE "ok"
      [] p = "home" ->
            IF m \in {"next-event", "tasks-summary", "finance-summary-home",
                      "digital-clock"}
            THEN "threw" ELSE "ok"

\* The collection an initializer hydrates from key, when the document
\* declares page p and the initializer gets as far as its getStorage call.
Hydrate(w, p, m, forPage, key) ==
    IF ~w.threw /\ p = forPage /\ ~(p = "timetable" /\ m = "timetable-container")
    THEN getStorage(w.st, key, << >>)
    ELSE << >>

\* The document of page p, lacking element m (or none), is loaded with the
\* clock at clockDay.
Load(p, m, clockDay, prefersDark) ==
    LET w == Boot(storage, prefersDark)
    IN  /\ storage' = w.st
        /\ dataTheme' = w.theme
        /\ cssAccent' = w.css
        /\ page' = p
        /\ missing' = m
        /\ today' = IF p \in {"timetable", "home"} THEN clockDay ELSE 0
        /\ notes' = Hydrate(w, p, m, "notes", "notes")
        /\ projects' = Hydrate(w, p, m, "projects", "projects")
        /\ finances' = Hydrate(w, p, m, "finances", "finances")
        /\ ttEvents' = Hydrate(w, p, m, "timetable", "timetableEvents")
        /\ calEvents' = Hydrate(w, p, m, "calendar", "calendarEvents")
        /\ initOut' = IF w.threw THEN "dead"
                      ELSE IF p = "projects" /\ \E i \in 1..Len(projects') : ~HasTasks(projects'[i])
                           THEN "threw"
                      ELSE PageInitOutcome(p, m)
        /\ home' = IF ~w.threw /\ p = "home" THEN HomeSummary(w.st, m, clockDay)
                   ELSE NoHome
        /\ cards' = IF w.threw THEN NoCards
                    ELSE FirstCards(p, m, clockDay,
                             CASE p = "notes" -> notes'
                               [] p = "projects" -> projects'
                               [] p = "finances" -> finances'
                               [] p = "timetable" -> ttEvents'
                               [] p = "calendar" -> calEvents'
                               [] OTHER -> NoCards)
        /\ totals' = IF ~w.threw /\ p = "finances"
                     THEN FinancesRender(finances', m, NoTotals)
                     ELSE NoTotals
        /\ file' = NoFile
        /\ Done("load", initOut')
        /\ UNCHANGED <<got, tabB>>

\* A page among pages is opened (or reloaded); whole tells whether the
\* document has every element.
Open(pages, whole) ==
    \E p \in pages : \E m \in (IF whole THEN {"none"} ELSE Elements(p) \cup {"none"}) :
        \E clockDay \in (IF p \in {"timetable", "home"} THEN ClockDays ELSE {0}) :
            \E prefersDark \in (IF storage.theme.kind = "missing" THEN BOOLEAN ELSE {FALSE}) :
                Load(p, m, clockDay, prefersDark)

LoadPage == Open(Pages, FALSE)

(***************************************************************************)
(* What the user types.  prompt() returns null (Cancel) or the text.       *)
(***************************************************************************)
Cancel == [ok |-> FALSE, text |-> << >>]
Typed(s) == [ok |-> TRUE, text |-> s]

NoteTitlePrompts == {Cancel, Typed(<<SP, "A">>), Typed(<<"B">>)}
NoteContentPrompts == {Cancel, Typed(<<"b", SP>>)}
ProjectPrompts == {Cancel, Typed(<< >>), Typed(<<"P">>)}
TaskPrompts == {Cancel, Typed(<< >>), Typed(<<"T">>)}
EntryPrompts == {Cancel, Typed(<< >>), Typed(<<"G", "y", "m">>)}
EventPrompts == {Cancel, Typed(<< >>), Typed(<<"D">>), Typed(<<"L">>)}

\* Items in storage, all stores together.
RECURSIVE SumLens(_, _)
SumLens(list, field) ==
    IF list = << >> THEN 0
    ELSE (IF field \in DOMAIN Head(list) THEN Len(Head(list)[field]) ELSE 0)
         + SumLens(Tail(list), field)

ItemCount(st) ==
    Len(st.notes.val) + Len(st.projects.val) + SumLens(st.projects.val, "tasks")
    + Len(st.finances.val) + SumLens(st.timetableEvents.val, "v")
    + SumLens(st.calendarEvents.val, "v")

Room == ItemCount(storage) < MaxItems /\ Len(notes) < MaxItems

\* list.splice(idx, 1), idx counted from 1.
Splice(list, idx) ==
    IF idx > Len(list) THEN list
    ELSE SubSeq(list, 1, idx - 1) \o SubSeq(list, idx + 1, Len(list))


(***************************************************************************)
(* Notes page.                                                             *)
(***************************************************************************)
\* render() of the notes page raises when the container is absent.
NotesRenderOut == IF missing = "notes-container" THEN "threw" ELSE "ok"

\* The note the add handler builds from the two prompts, the title left as typed.
NewNoteVerbatim(title, content) == [title |-> title, content |-> content]

\* { title: title.trim(), content: content }
NewNote(title, content) == [title |-> Trim(title), content |-> content]

\* addBtn's click handler.  It is registered when addBtn exists (render is
\* called only after).
AddNote(title, content) ==
    /\ page = "notes" /\ initOut # "dead" /\ missing # "add-note"
    /\ IF ~title.ok \/ ~content.ok
       THEN /\ UNCHANGED <<storage, notes, cards>>
            /\ Done("addNote", "cancel")
       ELSE /\ Room
            /\ notes' = Append(notes, NewNote(title.text, content.text))
            /\ storage' = setStorage(storage, "notes", notes')
            /\ cards' = IF missing = "notes-container" THEN cards ELSE Rerender(notes', cards)
            /\ DoneWith("addNote", NotesRenderOut,
                        [title |-> title.text, content |-> content.text])
    /\ UNCHANGED <<document, root, projects, finances, ttEvents, calEvents, home, totals, file, got, tabB>>

\* A card's Delete handler: the cards exist when render has run.
DeleteNote(idx) ==
    /\ page = "notes" /\ initOut = "ok"
    /\ idx \in 1..Len(cards)
    /\ notes' = Splice(notes, idx)
    /\ storage' = setStorage(storage, "notes", notes')
    /\ cards' = IF missing = "notes-container" THEN cards ELSE Rerender(notes', cards)
    /\ DoneWith("deleteNote", NotesRenderOut, [idx |-> idx])
    /\ UNCHANGED <<document, root, projects, finances, ttEvents, calEvents, home, totals, file, got, tabB>>

\* A card's Edit handler: each prompt that is not cancelled replaces its field.
EditNote(idx, newTitle, newContent) ==
    /\ page = "notes" /\ initOut = "ok"
    /\ idx \in 1..Len(cards) /\ idx \in 1..Len(notes)
    /\ notes' = [notes EXCEPT ![idx] =
                    [title   |-> IF newTitle.ok THEN Trim(newTitle.text) ELSE @.title,
                     content |-> IF newContent.ok THEN newContent.text ELSE @.content]]
    /\ storage' = setStorage(storage, "notes", notes')
    /\ cards' = IF missing = "notes-container" THEN cards ELSE Rerender(notes', cards)
    /\ Done("editNote", NotesRenderOut)
    /\ UNCHANGED <<document, root, projects, finances, ttEvents, calEvents, home, totals, file, got, tabB>>

NotesPage ==
    \/ \E title \in NoteTitlePrompts : \E content \in NoteContentPrompts :
          AddNote(title, content)
    \/ \E idx \in 1..Len(Cards("notes")) : DeleteNote(idx)
    \/ \E idx \in 1..Len(Cards("notes")) :
          \E newTitle \in NoteTitlePrompts : \E newContent \in NoteContentPrompts :
              EditNote(idx, newTitle, newContent)

(***************************************************************************)
(* A second tab of the same browser showing the notes page.  It runs the   *)
(* same script over the same localStorage with a notes array of its own.   *)
(***************************************************************************)
\* No second tab is open.
NoTab == [open |-> FALSE, notes |-> << >>]

\* save() writing the union of what is stored and what the tab holds.
SaveMerged(st, memory) ==
    setStorage(st, "notes", getStorage(st, "notes", << >>) \o memory)

\* save() of the notes page: setStorage('notes', notes).
NotesSave(st, memory) == setStorage(st, "notes", memory)

\* The second tab loads (or reloads) the whole notes document.
TabBLoad(prefersDark) ==
    LET w == Boot(storage, prefersDark)
    IN  /\ storage' = w.st
        /\ tabB' = IF w.threw THEN NoTab
                   ELSE [open |-> TRUE, notes |-> getStorage(w.st, "notes", << >>)]
        /\ Done("tabBLoad", IF w.threw THEN "dead" ELSE "ok")
        /\ UNCHANGED <<document, root, mems, home, totals, cards, file, got>>

TabBOpen ==
    \E prefersDark \in (IF storage.theme.kind = "missing" THEN BOOLEAN ELSE {FALSE}) :
        TabBLoad(prefersDark)

\* The second tab's Add Note handler.
TabBAddNote(title, content) ==
    /\ tabB.open
    /\ IF ~title.ok \/ ~content.ok
       THEN /\ UNCHANGED <<storage, tabB>>
            /\ Done("tabBAddNote", "cancel")
       ELSE /\ ItemCount(storage) < MaxItems /\ Len(tabB.notes) < MaxItems
            /\ tabB' = [tabB EXCEPT !.notes = Append(@, NewNote(title.text, content.text))]
            /\ storage' = NotesSave(storage, tabB'.notes)
            /\ DoneWith("tabBAddNote", "ok",
                        [title |-> title.text, content |-> content.text])
    /\ UNCHANGED <<document, root, mems, home, totals, cards, file, got>>

\* The Delete handler of a card of the second tab.
TabBDeleteNote(idx) ==
    /\ tabB.open
    /\ idx \in 1..Len(tabB.notes)
    /\ tabB' = [tabB EXCEPT !.notes = Splice(@, idx)]
    /\ storage' = NotesSave(storage, tabB'.notes)
    /\ DoneWith("tabBDeleteNote", "ok", [idx |-> idx])
    /\ UNCHANGED <<document, root, mems, home, totals, cards, file, got>>

\* The Edit handler of a card of the second tab.
TabBEditNote(idx, newTitle, newContent) ==
    /\ tabB.open
    /\ idx \in 1..Len(tabB.notes)
    /\ tabB' = [tabB EXCEPT !.notes[idx] =
                    [title   |-> IF newTitle.ok THEN Trim(newTitle.text) ELSE @.title,
                     content |-> IF newContent.ok THEN newContent.text ELSE @.content]]
    /\ storage' = NotesSave(storage, tabB'.notes)
    /\ Done("tabBEditNote", "ok")
    /\ UNCHANGED <<document, root, mems, home, totals, cards, file, got>>

TabBPage ==
    \/ TabBOpen
    \/ \E title \in NoteTitlePrompts : \E content \in NoteContentPrompts :
          TabBAddNote(title, content)
    \/ \E idx \in 1..Len(tabB.notes) : TabBDeleteNote(idx)
    \/ \E idx \in 1..Len(tabB.notes) :
          \E newTitle \in NoteTitlePrompts : \E newContent \in NoteContentPrompts :
              TabBEditNote(idx, newTitle, newContent)

(***************************************************************************)
(* Projects page.                                                          *)
(***************************************************************************)
\* render() of the projects page raises when the container is absent.
ProjectsRenderOut ==
    IF missing = "projects-container" \/ \E i \in 1..Len(projects) : ~HasTasks(projects[i])
    THEN "threw" ELSE "ok"

\* addProjectBtn's click handler, registered after the first render.
AddProject(name) ==
    /\ page = "projects" /\ initOut = "ok"
    /\ IF name.ok /\ name.text # << >>
       THEN /\ Room
            /\ projects' = Append(projects, [name |-> name.text, tasks |-> << >>])
            /\ storage' = setStorage(storage, "projects", projects')
            /\ cards' = IF missing = "projects-container" THEN cards
                ELSE Rerender(DrawnProjects(projects'), cards)
            /\ DoneWith("addProject", ProjectsRenderOut, [name |-> name.text])
       ELSE /\ UNCHANGED <<storage, projects, cards>>
            /\ Done("addProject", "cancel")
    /\ UNCHANGED <<document, root, notes, finances, ttEvents, calEvents, home, totals, file, got, tabB>>

\* A card's Add Task handler; the cards exist when render has run.
AddTask(pIdx, title) ==
    /\ page = "projects" /\ initOut # "dead" /\ missing # "projects-container"
    /\ pIdx \in 1..Len(projects) /\ pIdx \in 1..Len(cards)
    /\ IF title.ok /\ title.text # << >>
       THEN /\ Room
            /\ projects' = [projects EXCEPT ![pIdx].tasks =
                               Append(@, [title |-> title.text, done |-> FALSE])]
            /\ storage' = setStorage(storage, "projects", projects')
            /\ cards' = IF missing = "projects-container" THEN cards
                ELSE Rerender(DrawnProjects(projects'), cards)
            /\ DoneWith("addTask", ProjectsRenderOut,
                        [pIdx |-> pIdx, title |-> title.text])
       ELSE /\ UNCHANGED <<storage, projects, cards>>
            /\ Done("addTask", "cancel")
    /\ UNCHANGED <<document, root, notes, finances, ttEvents, calEvents, home, totals, file, got, tabB>>

\* A task's click handler.
ToggleTask(pIdx, tIdx) ==
    /\ page = "projects" /\ initOut # "dead" /\ missing # "projects-container"
    /\ pIdx \in 1..Len(projects)
    /\ tIdx \in 1..Len(projects[pIdx].tasks)
    /\ pIdx \in 1..Len(cards) /\ tIdx \in 1..Len(cards[pIdx].tasks)
    /\ projects' = [projects EXCEPT ![pIdx].tasks[tIdx].done = ~@]
    /\ storage' = setStorage(storage, "projects", projects')
    /\ cards' = IF missing = "projects-container" THEN cards
                ELSE Rerender(DrawnProjects(projects'), cards)
    /\ Done("toggleTask", ProjectsRenderOut)
    /\ UNCHANGED <<document, root, notes, finances, ttEvents, calEvents, home, totals, file, got, tabB>>

ProjectsPage ==
    \/ \E name \in ProjectPrompts : AddProject(name)
    \/ \E pIdx \in 1..Len(Cards("projects")) : \E title \in TaskPrompts :
          AddTask(pIdx, title)
    \/ \E pIdx \in 1..Len(Cards("projects")) :
          \E tIdx \in 1..Len(Cards("projects")[pIdx].tasks) : ToggleTask(pIdx, tIdx)

(***************************************************************************)
(* Finances page.                                                          *)
(***************************************************************************)
\* The form as the user fills it in: description, amount, type, date.
Form(description, amount, type, date) ==
    [description |-> description, amount |-> amount, type |-> type, date |-> date]

FormInputs ==
    { Form(<<SP, "R">>, <<"1", "0", "0", SP>>, "income", << >>),
      Form(<<"F">>, <<"4", "0">>, "expense", formatDate(5)),
      Form(<<"F">>, <<"-", "5">>, "expense", << >>),
      Form(<<"F">>, <<"Infinity">>, "income", formatDate(5)),
      Form(<< >>, <<"4", "0">>, "income", << >>),
      Form(<<SP>>, <<"4", "0">>, "income", << >>),
      Form(<<"F">>, << >>, "income", << >>),
      Form(<<"F">>, <<"a", "b", "c">>, "expense", << >>),
      Form(<<"F">>, <<"1", "2", "a">>, "expense", << >>) }

\* render() of the finances page: the rows are rebuilt first, then the
\* three totals and the progress bar are written, each raising when its
\* element is absent.
FinancesRenderOut ==
    IF missing \in {"finance-rows", "income-total", "expense-total", "net-total",
                    "finance-progress"}
    THEN "threw" ELSE "ok"

\* The submit handler's test with parseFloat in place of isNaN's coercion.
RejectsByParseFloat(description, amount) ==
    description = << >> \/ amount = << >> \/ parseFloat(amount).k = "nan"

\* if (!description || !amount || isNaN(amount))
Rejects(description, amount) ==
    description = << >> \/ amount = << >> \/ isNaN(amount)

\* The form's submit handler, registered after the first render.
SubmitFinance(form, clockDay) ==
    LET description == Trim(form.description)
        amount      == Trim(form.amount)
        type        == form.type
        date        == IF form.date # << >> THEN form.date ELSE formatDate(clockDay)
        entered     == [form |-> form, clockDay |-> clockDay]
    IN  /\ page = "finances" /\ initOut = "ok"
        /\ IF Rejects(description, amount)
           THEN /\ UNCHANGED <<storage, finances, totals, cards>>
                /\ DoneWith("submitFinance", "alert", [form |-> form, clockDay |-> 0])
           ELSE /\ Room
                /\ finances' = Append(finances,
                                  [description |-> description,
                                   amount |-> parseFloat(amount),
                                   type |-> type, date |-> date])
                /\ storage' = setStorage(storage, "finances", finances')
                /\ cards' = IF missing = "finance-rows" THEN cards ELSE Rerender(finances', cards)
                /\ totals' = FinancesRender(finances', missing, totals)
                /\ DoneWith("submitFinance", FinancesRenderOut, entered)
        /\ UNCHANGED <<document, root, notes, projects, ttEvents, calEvents, home, file, got, tabB>>

\* A row's delete handler; the rows exist when render got past tbody.
DeleteFinance(idx) ==
    /\ page = "finances" /\ initOut # "dead" /\ missing # "finance-rows"
    /\ idx \in 1..Len(cards)
    /\ finances' = Splice(finances, idx)
    /\ storage' = setStorage(storage, "finances", finances')
    /\ cards' = IF missing = "finance-rows" THEN cards ELSE Rerender(finances', cards)
    /\ totals' = FinancesRender(finances', missing, totals)
    /\ DoneWith("deleteFinance", FinancesRenderOut, [idx |-> idx])
    /\ UNCHANGED <<document, root, notes, projects, ttEvents, calEvents, home, file, got, tabB>>

FinancesPage ==
    \/ \E form \in FormInputs :
          \E clockDay \in (IF form.date = << >> THEN ClockDays ELSE {0}) :
              SubmitFinance(form, clockDay)
    \/ \E idx \in 1..Len(Cards("finances")) : DeleteFinance(idx)

(***************************************************************************)
(* Date-keyed stores (timetableEvents, calendarEvents).                    *)
(***************************************************************************)
HasKey(events, key) == \E e \in 1..Len(events) : events[e].k = key

KeyIndex(events, key) == CHOOSE e \in 1..Len(events) : events[e].k = key

\* The push into a map that keeps the pushed day only.
PushAtOnly(events, key, item) ==
    <<[k |-> key,
       v |-> Append(IF HasKey(events, key) THEN events[KeyIndex(events, key)].v ELSE << >>,
                    item)]>>

\* if (!events[key]) events[key] = []; events[key].push(item)
PushAt(events, key, item) ==
    IF HasKey(events, key)
    THEN [events EXCEPT ![KeyIndex(events, key)].v = Append(@, item)]
    ELSE Append(events, [k |-> key, v |-> <<item>>])

(***************************************************************************)
(* Timetable page.  Its columns are the WindowDays days from today; every  *)
(* handler persists and the changed day is drawn again (renderDay).        *)
(***************************************************************************)
TimetableShown == page = "timetable" /\ initOut = "ok" /\ missing = "none"

\* The keys of the columns: formatDate(start + i) for i < 14.
InWindow(key) == \E i \in 0..(WindowDays - 1) : formatDate(today + i) = key

\* A column's "+" handler.
AddEntry(offset, title) ==
    /\ TimetableShown
    /\ offset < WindowDays
    /\ IF title.ok /\ title.text # << >>
       THEN /\ Room
            /\ ttEvents' = PushAt(ttEvents, formatDate(today + offset),
                                  [title |-> title.text, done |-> FALSE])
            /\ storage' = setStorage(storage, "timetableEvents", ttEvents')
            /\ cards' = RenderDay(cards, ttEvents', formatDate(today + offset))
            /\ DoneWith("addEntry", "ok", [offset |-> offset, title |-> title.text])
       ELSE /\ UNCHANGED <<storage, ttEvents, cards>>
            /\ Done("addEntry", "cancel")
    /\ UNCHANGED <<document, root, notes, projects, finances, calEvents, home, totals, file, got, tabB>>

\* An entry's text click handler: item.done = !item.done
ToggleEntry(e, idx) ==
    /\ TimetableShown
    /\ e \in 1..Len(ttEvents) /\ InWindow(ttEvents[e].k)
    /\ idx \in 1..Len(ttEvents[e].v) /\ HasCard(ttEvents[e].k, idx)
    /\ ttEvents' = [ttEvents EXCEPT ![e].v[idx].done = ~@]
    /\ storage' = setStorage(storage, "timetableEvents", ttEvents')
    /\ cards' = ToggleCard(cards, ttEvents[e].k, idx)
    /\ DoneWith("toggleEntry", "ok", [e |-> e, idx |-> idx])
    /\ UNCHANGED <<document, root, notes, projects, finances, calEvents, home, totals, file, got, tabB>>

\* An entry's delete handler: (events[key] || []).splice(index, 1)
DeleteEntry(e, idx) ==
    /\ TimetableShown
    /\ e \in 1..Len(ttEvents) /\ InWindow(ttEvents[e].k)
    /\ HasCard(ttEvents[e].k, idx)
    /\ ttEvents' = [ttEvents EXCEPT ![e].v = Splice(@, idx)]
    /\ storage' = setStorage(storage, "timetableEvents", ttEvents')
    /\ cards' = RenderDay(cards, ttEvents', ttEvents[e].k)
    /\ DoneWith("deleteEntry", "ok", [e |-> e, idx |-> idx])
    /\ UNCHANGED <<document, root, notes, projects, finances, calEvents, home, totals, file, got, tabB>>

TimetablePage ==
    \/ \E offset \in DayOffsets : \E title \in EntryPrompts : AddEntry(offset, title)
    \/ \E e \in 1..Len(ttEvents) : \E idx \in 1..Len(ttEvents[e].v) : ToggleEntry(e, idx)
    \/ \E e \in 1..Len(ttEvents) : \E idx \in 1..Len(ttEvents[e].v) : DeleteEntry(e, idx)

(***************************************************************************)
(* Calendar page, showing March 2024.  render() draws the cells once the   *)
(* grid and the month name are there; the month buttons are looked up      *)
(* after the first render.                                                 *)
(***************************************************************************)
CalendarShown ==
    page = "calendar" /\ initOut # "dead" /\ missing \notin {"calendar-grid", "month-name"}

\* A cell's click handler.
AddEvent(day, title) ==
    /\ CalendarShown
    /\ IF title.ok /\ title.text # << >>
       THEN /\ Room
            /\ calEvents' = PushAt(calEvents, CalendarDateStr(day), [title |-> title.text])
            /\ storage' = setStorage(storage, "calendarEvents", calEvents')
            /\ cards' = Rerender(calEvents', cards)
            /\ DoneWith("addEvent", "ok", [day |-> day, title |-> title.text])
       ELSE /\ UNCHANGED <<storage, calEvents, cards>>
            /\ Done("addEvent", "cancel")
    /\ UNCHANGED <<document, root, notes, projects, finances, ttEvents, home, totals, file, got, tabB>>

\* An event's click handler: confirm, then splice.
DeleteEvent(e, idx, confirmed) ==
    /\ CalendarShown
    /\ e \in 1..Len(calEvents)
    /\ HasCard(calEvents[e].k, idx)
    /\ IF confirmed
       THEN /\ calEvents' = [calEvents EXCEPT ![e].v = Splice(@, idx)]
            /\ storage' = setStorage(storage, "calendarEvents", calEvents')
            /\ cards' = Rerender(calEvents', cards)
            /\ DoneWith("deleteEvent", "ok", [e |-> e, idx |-> idx])
       ELSE /\ UNCHANGED <<storage, calEvents, cards>>
            /\ Done("deleteEvent", "cancel")
    /\ UNCHANGED <<document, root, notes, projects, finances, ttEvents, home, totals, file, got, tabB>>

CalendarPage ==
    \/ \E day \in CalendarDays : \E title \in EventPrompts : AddEvent(day, title)
    \/ \E e \in 1..Len(calEvents) : \E idx \in 1..Len(calEvents[e].v) :
          \E confirmed \in BOOLEAN : DeleteEvent(e, idx, confirmed)

(***************************************************************************)
(* Settings page.  Every control is looked up and used only if present.    *)
(***************************************************************************)
SettingsHas(element) == page = "settings" /\ initOut # "dead" /\ missing # element

LowerCase == <<"a", "b", "z">>
UpperCase == <<"A", "B", "Z">>

\* toUpperCase() of one character.
UpperChar(c) ==
    IF \E i \in 1..Len(LowerCase) : LowerCase[i] = c
    THEN UpperCase[CHOOSE i \in 1..Len(LowerCase) : LowerCase[i] = c]
    ELSE c

\* e.target.value.toUpperCase().slice(0, 1)
AvatarValue(text) == IF text = << >> THEN << >> ELSE <<UpperChar(Head(text))>>

\* What a colour input gives: '#rrggbb'.
AccentInputs == {<<"#00ff00">>}
AvatarInputs == {<< >>, <<"z">>, <<"a", "b">>}

\* The accent input's input handler.
InputAccent(value) ==
    /\ SettingsHas("accent-input")
    /\ LET w == applyAccentColor(World(storage, dataTheme, cssAccent), StrVal(value))
       IN  /\ storage' = w.st
           /\ cssAccent' = w.css
    /\ Done("inputAccent", "ok")
    /\ UNCHANGED <<document, dataTheme, mems, home, totals, cards, file, got, tabB>>

\* The avatar input's input handler.
InputAvatar(value) ==
    /\ SettingsHas("avatar-input")
    /\ storage' = applyAvatarLetter(World(storage, dataTheme, cssAccent),
                                    AvatarValue(value)).st
    /\ Done("inputAvatar", "ok")
    /\ UNCHANGED <<document, root, mems, home, totals, cards, file, got, tabB>>

\* The theme toggle of the settings page, and the navigation's on every
\* page (initNavigation runs before the page initializer).
ToggleTheme ==
    /\ page # "none" /\ initOut # "dead"
    /\ page = "settings" => missing # "theme-toggle-settings"
    /\ LET w == toggleTheme(World(storage, dataTheme, cssAccent))
       IN  /\ storage' = w.st
           /\ dataTheme' = w.theme
    /\ Done("toggleTheme", "ok")
    /\ UNCHANGED <<document, cssAccent, mems, home, totals, cards, file, got, tabB>>

\* The object the export handler serialises.
ExportData(st, theme, css) ==
    [key \in Keys |->
        CASE key = "accentColor" ->
                 Value(getStorage(st, key, StrVal(ComputedAccent(css))))
          [] key = "avatarLetter" -> Value(getStorage(st, key, <<"K">>))
          [] key = "theme" -> Value(getStorage(st, key, theme))
          [] OTHER -> Value(getStorage(st, key, << >>))]

\* The downloaded file: JSON.stringify(data, null, 2).
ExportFile(st, theme, css) == [kind |-> "object", data |-> ExportData(st, theme, css)]

\* The export button's click handler: nothing of the page or of storage changes.
Export ==
    /\ SettingsHas("export-data")
    /\ Done("export", "ok")
    /\ UNCHANGED <<storage, document, root, mems, home, totals, cards, file, got, tabB>>

\* if (data[key]): truthiness of a property of the parsed object.
Truthy(key, field) ==
    /\ field.st = "value"
    /\ CASE key = "accentColor" -> AccentTruthy(field.val)
         [] key = "avatarLetter" -> field.val # << >>
         [] key = "theme" -> field.val # ""
         [] OTHER -> TRUE

\* if (data[key]) setStorage(key, data[key])
ImportKey(st, data, key) ==
    IF Truthy(key, data[key]) THEN setStorage(st, key, data[key].val) ELSE st

\* The eight conditional writes, in the handler's order.
ImportKeys(st, data) ==
    LET s1 == ImportKey(st, data, "notes")
        s2 == ImportKey(s1, data, "projects")
        s3 == ImportKey(s2, data, "finances")
        s4 == ImportKey(s3, data, "timetableEvents")
        s5 == ImportKey(s4, data, "calendarEvents")
        s6 == ImportKey(s5, data, "accentColor")
        s7 == ImportKey(s6, data, "avatarLetter")
    IN  ImportKey(s7, data, "theme")

\* reader.onload on file f in world w: the world it leaves and whether it
\* ended in the success alert ("ok") or in catch ("alert").
ImportOnload(w, f) ==
    LET data   == f.data
        wrote  == [w EXCEPT !.st = ImportKeys(w.st, data)]
        accent == applyAccentColor(wrote,
                      IF Truthy("accentColor", data.accentColor)
                      THEN data.accentColor.val
                      ELSE StrVal(ComputedAccent(wrote.css)))
        avatar == applyAvatarLetter(accent,
                      IF Truthy("avatarLetter", data.avatarLetter)
                      THEN data.avatarLetter.val ELSE <<"K">>)
        themed == applyTheme(avatar,
                      IF Truthy("theme", data.theme) THEN data.theme.val ELSE avatar.theme)
    IN  IF f.kind = "corrupt" THEN [w |-> w, out |-> "alert"]
        ELSE IF f.kind = "null" THEN [w |-> w, out |-> "alert"]
        ELSE IF accent.threw THEN [w |-> [accent EXCEPT !.threw = FALSE], out |-> "alert"]
        ELSE [w |-> themed, out |-> "ok"]

NoteA == [title |-> <<"A">>, content |-> <<"b", SP>>]

\* Files the user picks.
ImportObjects ==
    { EmptyObject,
      [EmptyObject EXCEPT !.notes = Value(<<NoteA>>), !.avatarLetter = Value(<<"Z">>)],
      [EmptyObject EXCEPT !.notes = Value(<<NoteA>>),
                          !.accentColor = Value(NumVal(<<"5">>))],
      [EmptyObject EXCEPT !.notes = Null("notes"), !.avatarLetter = Value(<< >>)],
      [EmptyObject EXCEPT !.projects = Value(<<[name |-> <<"X">>]>>)],
      [notes |-> Value(<< >>), projects |-> Value(<< >>), finances |-> Value(<< >>),
       timetableEvents |-> Value(<< >>), calendarEvents |-> Value(<< >>),
       accentColor |-> Value(StrVal(<<"#00ff00">>)), avatarLetter |-> Value(<<"Z">>),
       theme |-> Value("dark")] }

ImportFiles ==
    { [kind |-> "corrupt", data |-> EmptyObject], [kind |-> "null", data |-> EmptyObject] }
    \cup { [kind |-> "object", data |-> o] : o \in ImportObjects }

\* The file input's change handler: reader.readAsText(file).
ChooseFile(f) ==
    /\ SettingsHas("import-data") /\ missing # "import-file"
    /\ file' = f
    /\ Done("chooseFile", "ok")
    /\ UNCHANGED <<storage, document, root, mems, home, totals, cards, got, tabB>>

\* reader.onload, when the read completes.
FileLoaded ==
    /\ file.kind # "none"
    /\ LET r == ImportOnload(World(storage, dataTheme, cssAccent), file)
       IN  /\ storage' = r.w.st
           /\ dataTheme' = r.w.theme
           /\ cssAccent' = r.w.css
           /\ Done("import", r.out)
    /\ file' = NoFile
    /\ UNCHANGED <<document, mems, home, totals, cards, got, tabB>>

\* The clear button's click handler: confirm, localStorage.clear(), then
\* location.reload(), which loads the same document again.
ClearData(confirmed, prefersDark) ==
    /\ SettingsHas("clear-data")
    /\ IF confirmed
       THEN LET w == Boot(ClearedStorage, prefersDark)
            IN  /\ storage' = w.st
                /\ dataTheme' = w.theme
                /\ cssAccent' = w.css
                /\ file' = NoFile
                /\ Done("clear", "ok")
       ELSE /\ UNCHANGED <<storage, root, file>>
            /\ Done("clear", "cancel")
    /\ UNCHANGED <<document, mems, home, totals, cards, got, tabB>>

SettingsPage ==
    \/ \E value \in AccentInputs : InputAccent(value)
    \/ \E value \in AvatarInputs : InputAvatar(value)
    \/ ToggleTheme
    \/ Export
    \/ \E f \in ImportFiles : ChooseFile(f)
    \/ FileLoaded
    \/ \E confirmed \in BOOLEAN : \E prefersDark \in BOOLEAN :
          ClearData(confirmed, prefersDark)

(***************************************************************************)
(* The browser before the first page is opened: empty localStorage.        *)
(***************************************************************************)
NoCall == [key |-> "none", defaultValue |-> << >>,
           result |-> [threw |-> FALSE, val |-> << >>]]

Fresh ==
    /\ page = "none"
    /\ missing = "none"
    /\ initOut = "dead"
    /\ today = 0
    /\ dataTheme = ""
    /\ cssAccent = << >>
    /\ notes = << >>
    /\ projects = << >>
    /\ finances = << >>
    /\ ttEvents = << >>
    /\ calEvents = << >>
    /\ home = NoHome
    /\ totals = NoTotals
    /\ cards = NoCards
    /\ file = NoFile
    /\ got = NoCall
    /\ tabB = NoTab
    /\ last = [op |-> "none", out |-> "ok", args |-> NoArgs]

Init == storage = ClearedStorage /\ Fresh

\* The whole application: any page, any handler.
Next ==
    \/ LoadPage
    \/ NotesPage
    \/ ProjectsPage
    \/ FinancesPage
    \/ TimetablePage
    \/ CalendarPage
    \/ SettingsPage
    \/ TabBPage

Spec == Init /\ [][Next]_vars

(***************************************************************************)
(* Sessions.  The whole application is too large to enumerate, so each     *)
(* property is checked on the part of it that the property is about.       *)
(***************************************************************************)
\* One page, possibly lacking an element, is opened and stays the open
\* page (it may be reloaded); the user works on it.
OpenOne == \E p \in Pages : page \in {"none", p} /\ Open({p}, FALSE)

NextPages ==
    \/ OpenOne
    \/ NotesPage
    \/ ProjectsPage
    \/ FinancesPage
    \/ TimetablePage
    \/ CalendarPage

SpecPages == Init /\ [][NextPages]_vars

\* The settings page and the notes page, complete documents.
NextSettings ==
    \/ Open({"settings", "notes"}, TRUE)
    \/ NotesPage
    \/ SettingsPage

SpecSettings == Init /\ [][NextSettings]_vars

\* The calendar and the home page, complete documents.
NextCalendar ==
    \/ Open({"calendar", "home"}, TRUE)
    \/ CalendarPage

SpecCalendar == Init /\ [][NextCalendar]_vars

\* The finances and the home page, complete documents.
NextFinances ==
    \/ Open({"finances", "home"}, TRUE)
    \/ FinancesPage

SpecFinances == Init /\ [][NextFinances]_vars

\* The projects page and the import of the settings page, complete
\* documents.
NextProjects ==
    \/ Open({"projects", "settings"}, TRUE)
    \/ ProjectsPage
    \/ \E f \in ImportFiles : ChooseFile(f)
    \/ FileLoaded

SpecProjects == Init /\ [][NextProjects]_vars

(***************************************************************************)
(* Two tabs on the notes page.                                             *)
(***************************************************************************)
NextTabs ==
    \/ Open({"notes"}, TRUE)
    \/ NotesPage
    \/ TabBPage

SpecTabs == Init /\ [][NextTabs]_vars

\* The timetable and the home page, complete documents.
NextTimetable ==
    \/ Open({"timetable", "home"}, TRUE)
    \/ TimetablePage

SpecTimetable == Init /\ [][NextTimetable]_vars

\* Texts found under a key that the script did not necessarily write.
RawTexts(key) ==
    CASE key = "notes" ->
            {NoItem(key), [kind |-> "empty", val |-> << >>],
             [kind |-> "corrupt", val |-> << >>],
             [kind |-> "json", val |-> << >>],
             [kind |-> "json", val |-> <<[title |-> <<"A">>, content |-> << >>]>>]}
      [] key = "avatarLetter" ->
            {NoItem(key), [kind |-> "empty", val |-> << >>],
             [kind |-> "corrupt", val |-> << >>],
             [kind |-> "json", val |-> << >>],
             [kind |-> "json", val |-> <<"Z">>]}
      [] key = "theme" ->
            {NoItem(key), [kind |-> "corrupt", val |-> ""],
             [kind |-> "json", val |-> "dark"]}

\* The defaults the script passes for a key.
Defaults(key) ==
    CASE key = "notes" -> {<< >>}
      [] key = "avatarLetter" -> {<< >>, <<"K">>}
      [] key = "theme" -> {"", "light", "dark"}

InitGet ==
    /\ \E n \in RawTexts("notes") : \E a \in RawTexts("avatarLetter") :
           \E t \in RawTexts("theme") :
               storage = [ClearedStorage EXCEPT !["notes"] = n,
                                                !["avatarLetter"] = a,
                                                !["theme"] = t]
    /\ Fresh

\* A call getStorage(key, defaultValue).
CallGetStorage(key, defaultValue) ==
    /\ got' = [key |-> key, defaultValue |-> defaultValue,
               result |-> getStorageText(storage[key], defaultValue)]
    /\ UNCHANGED <<storage, document, root, mems, home, totals, cards, file, tabB, last>>

NextGet ==
    \E key \in {"notes", "avatarLetter", "theme"} :
        \E defaultValue \in Defaults(key) : CallGetStorage(key, defaultValue)

SpecGet == InitGet /\ [][NextGet]_vars

(***************************************************************************)
(* Properties.                                                             *)
(***************************************************************************)
\* The text setStorage leaves for a value.
Stored(v) == [kind |-> "json", val |-> v]

\* A step of reader.onload on a file that parsed to an object.
ImportStep == file.kind = "object" /\ last'.op = "import"

\* C1.  Import of an object that parsed, ending in the success alert:
\* every key of the eight that the object holds is afterwards stored with
\* the imported value, and every key the object does not hold is stored as
\* it was before.
C1_ImportOverwritesPresentKeepsAbsent ==
    [][ (ImportStep /\ last'.out = "ok") =>
            \A key \in Keys :
                /\ file.data[key].st = "value" => storage'[key] = Stored(file.data[key].val)
                /\ file.data[key].st = "absent" => storage'[key] = storage[key] ]_vars

\* C2.  Whenever the settings page can export: the exported file, imported
\* into the store that clearing and reloading leaves, is stored key by key
\* with the values the file holds.
C2_ExportImportRoundTrip ==
    SettingsHas("export-data") =>
        \A prefersDark \in BOOLEAN :
            LET exported == ExportFile(storage, dataTheme, cssAccent)
                imported == ImportOnload(Boot(ClearedStorage, prefersDark), exported)
            IN  \A key \in Keys : imported.w.st[key] = Stored(exported.data[key].val)

\* C3.  An import that ends in the error alert has written no key.
C3_FailedImportWritesNothing ==
    [][ (file.kind # "none" /\ last'.op = "import" /\ last'.out = "alert") =>
            storage' = storage ]_vars

\* The collection a fresh load reads from key.
Loaded(key) == getStorage(storage, key, << >>)

Holds(list, item) == \E i \in 1..Len(list) : list[i] = item

HoldsAt(map, k, item) == \E e \in 1..Len(map) : map[e].k = k /\ Holds(map[e].v, item)

\* The add handler pushed its item and saved it (the render that follows
\* may still raise).
AcceptedAdd(op) == last.op = op /\ last.out \in {"ok", "threw"}

\* C4, as stated.  After an accepted add of a note, a project, a task, a
\* finance entry, a timetable entry or a calendar event, the collection a
\* fresh load reads from storage contains the new item with every field
\* equal to what the user entered.
C4_AddThenLoadVerbatim ==
    /\ AcceptedAdd("addNote") =>
           Holds(Loaded("notes"),
                 [title |-> last.args.title, content |-> last.args.content])
    /\ AcceptedAdd("addProject") =>
           Holds(Loaded("projects"), [name |-> last.args.name, tasks |-> << >>])
    /\ AcceptedAdd("addTask") =>
           Holds(Loaded("projects")[last.args.pIdx].tasks,
                 [title |-> last.args.title, done |-> FALSE])
    /\ AcceptedAdd("submitFinance") =>
           Holds(Loaded("finances"),
                 [description |-> last.args.form.description,
                  amount |-> ToNumber(last.args.form.amount),
                  type |-> last.args.form.type,
                  date |-> last.args.form.date])
    /\ AcceptedAdd("addEntry") =>
           HoldsAt(Loaded("timetableEvents"), formatDate(today + last.args.offset),
                   [title |-> last.args.title, done |-> FALSE])
    /\ AcceptedAdd("addEvent") =>
           HoldsAt(Loaded("calendarEvents"), CalendarDateStr(last.args.day),
                   [title |-> last.args.title])

\* C4, amended.  After an accepted add, the collection a fresh load reads
\* from storage contains the new item, with the text fields as entered
\* except that a note's title and a finance entry's description have their
\* surrounding white space removed, a finance entry's amount is the number
\* parseFloat reads from the trimmed text as JSON writes it (null when it
\* is not finite), and a finance entry's date left empty is the current
\* date.
C4_AddThenLoadAsStored ==
    /\ AcceptedAdd("addNote") =>
           Holds(Loaded("notes"),
                 [title |-> Trim(last.args.title), content |-> last.args.content])
    /\ AcceptedAdd("addProject") =>
           Holds(Loaded("projects"), [name |-> last.args.name, tasks |-> << >>])
    /\ AcceptedAdd("addTask") =>
           Holds(Loaded("projects")[last.args.pIdx].tasks,
                 [title |-> last.args.title, done |-> FALSE])
    /\ AcceptedAdd("submitFinance") =>
           Holds(Loaded("finances"),
                 [description |-> Trim(last.args.form.description),
                  amount |-> JsonNumber(parseFloat(Trim(last.args.form.amount))),
                  type |-> last.args.form.type,
                  date |-> IF last.args.form.date = << >>
                           THEN formatDate(last.args.clockDay)
                           ELSE last.args.form.date])
    /\ AcceptedAdd("addEntry") =>
           HoldsAt(Loaded("timetableEvents"), formatDate(today + last.args.offset),
                   [title |-> last.args.title, done |-> FALSE])
    /\ AcceptedAdd("addEvent") =>
           HoldsAt(Loaded("calendarEvents"), CalendarDateStr(last.args.day),
                   [title |-> last.args.title])

\* A note was added whose title was typed with white space around it.
C4_TrimmedTitleAdded ==
    /\ AcceptedAdd("addNote")
    /\ last.args.title # Trim(last.args.title)
    /\ Len(Loaded("notes")) > 0

\* C5.  Every entry of the finances store has an amount that is a number
\* and is not negative.
C5_StoredAmountsAreNonNegativeNumbers ==
    \A i \in 1..Len(Loaded("finances")) :
        /\ Loaded("finances")[i].amount.k = "fin"
        /\ Loaded("finances")[i].amount.n >= 0

\* An amount text that holds a character no number is written with.
NonNumeric(amount) ==
    \E i \in 1..Len(amount) : ~IsDigit(amount[i]) /\ amount[i] \notin {"-", SP, "Infinity"}

InvalidForm(form) ==
    form.description = << >> \/ form.amount = << >> \/ NonNumeric(form.amount)

\* C6.  A submission of the finance form with an empty description, an
\* empty amount or a non-numeric amount ends in the alert and leaves the
\* finances collection as it was, in memory and in storage.
C6_InvalidSubmitRejected ==
    [][ (last'.op = "submitFinance" /\ InvalidForm(last'.args.form)) =>
            /\ last'.out = "alert"
            /\ finances' = finances
            /\ storage'.finances = storage.finances ]_vars

\* An invalid form was submitted over a collection that holds entries.
C6_InvalidSubmitOverEntries ==
    /\ last.op = "submitFinance" /\ last.out = "alert"
    /\ InvalidForm(last.args.form)
    /\ Len(finances) > 0
    /\ storage.finances = Stored(JsonStringify("finances", finances))

\* C8.  In a document that lacks an element the page's initializer looks
\* up, neither the initializer nor a later handler raises an error.
C8_MissingElementIsSilent == missing # "none" => last.out # "threw"

\* C7.  A call of getStorage does not throw; it returns the caller's
\* default when the key holds no text or text that does not parse as JSON,
\* and the value the stored JSON denotes otherwise.
C7_GetStorageDefaultsNeverThrows ==
    got.key # "none" =>
        /\ ~got.result.threw
        /\ storage[got.key].kind \in {"missing", "empty", "corrupt"} =>
               got.result.val = got.defaultValue
        /\ storage[got.key].kind = "json" => got.result.val = storage[got.key].val

\* getStorage was called on a key that holds text that is not JSON.
C7_CorruptTextRead ==
    /\ got.key # "none"
    /\ storage[got.key].kind = "corrupt"
    /\ got.result.val = got.defaultValue

\* The day of month a date key names.
DayOf(key) == DigitsValue(SubSeq(key, Len(YearMonth) + 1, Len(key)))

\* The dates of today or later that hold an event.
Upcoming(events) ==
    {e \in 1..Len(events) : DayOf(events[e].k) >= today /\ events[e].v # << >>}

\* C9.  On the home page the next event is the first event of the
\* earliest date of today or later that holds an event, and no event is
\* reported exactly when no such date exists.
C9_NextEventIsEarliestUpcoming ==
    (page = "home" /\ initOut = "ok") =>
        LET events == Loaded("calendarEvents")
        IN  /\ home.next.found <=> Upcoming(events) # {}
            /\ home.next.found =>
                   \E e \in Upcoming(events) :
                       /\ \A other \in Upcoming(events) :
                              DayOf(events[e].k) <= DayOf(events[other].k)
                       /\ home.next.date = events[e].k
                       /\ home.next.title = events[e].v[1].title

\* The home page reports an event of a date that holds two events.
C9_TieOnNextDate ==
    /\ page = "home" /\ initOut = "ok" /\ home.next.found
    /\ \E e \in 1..Len(Loaded("calendarEvents")) :
           /\ Loaded("calendarEvents")[e].k = home.next.date
           /\ Len(Loaded("calendarEvents")[e].v) >= 2

\* The persisted timetable entries that are not done.
NotDone(st) ==
    LET tEvents == getStorage(st, "timetableEvents", << >>)
    IN  UNION { { <<e, idx>> : idx \in {i \in 1..Len(tEvents[e].v) : ~tEvents[e].v[i].done} } :
                e \in 1..Len(tEvents) }

\* A click on an entry of the timetable.
ToggleStep == last'.op = "toggleEntry"

\* C10.  The home page's pending count is the number of persisted
\* timetable entries that are not done; a toggle flips the persisted done
\* flag of the entry and moves that number by one, down when the entry
\* becomes done and up when it becomes not done.
C10_PendingCountFollowsToggles ==
    /\ []((page = "home" /\ initOut = "ok") => home.pending = Cardinality(NotDone(storage)))
    /\ [][ ToggleStep =>
             LET e      == last'.args.e
                 idx    == last'.args.idx
                 before == getStorage(storage, "timetableEvents", << >>)[e].v[idx]
                 after  == getStorage(storage', "timetableEvents", << >>)[e].v[idx]
             IN  /\ after.done = ~before.done
                 /\ after.title = before.title
                 /\ Cardinality(NotDone(storage')) =
                        Cardinality(NotDone(storage)) + (IF before.done THEN 1 ELSE -1) ]_vars

\* The home page counts one pending entry while another entry is done.
C10_DoneEntryExcluded ==
    /\ page = "home" /\ initOut = "ok"
    /\ home.pending = 1
    /\ Cardinality(NotDone(storage)) = 1
    /\ \E e \in 1..Len(Loaded("timetableEvents")) :
           \E idx \in 1..Len(Loaded("timetableEvents")[e].v) :
               Loaded("timetableEvents")[e].v[idx].done

\* The sum of the amounts of the stored entries of a type; an amount
\* stored as null is no number and adds nothing.
RECURSIVE StoredSum(_, _)
StoredSum(list, type) ==
    IF list = << >> THEN 0
    ELSE (IF Head(list).type = type /\ Head(list).amount.k = "fin"
          THEN Head(list).amount.n ELSE 0)
         + StoredSum(Tail(list), type)

StoredNet == StoredSum(Loaded("finances"), "income") - StoredSum(Loaded("finances"), "expense")

\* C11.  The net total the finance page shows is the sum of the stored
\* income amounts minus the sum of the stored expense amounts, and the
\* home page's net balance, computed from the same store, is that number.
C11_NetIsIncomeMinusExpense ==
    /\ (page = "finances" /\ initOut = "ok") => totals.net = Pounds(Fin(StoredNet))
    /\ (page = "home" /\ initOut = "ok") =>
           home.net = <<"Net balance: ">> \o Pounds(Fin(StoredNet))

\* C17.  For a store whose amounts are all numbers, the width render gives
\* the progress bar is a percentage from 0 to 100: 0 when income + expense
\* is not positive, and otherwise expense / (income + expense) * 100.
C17_ProgressWidthIsExpenseShare ==
    (/\ page = "finances" /\ initOut = "ok"
     /\ \A i \in 1..Len(Loaded("finances")) : Loaded("finances")[i].amount.k = "fin") =>
        LET income  == StoredSum(Loaded("finances"), "income")
            expense == StoredSum(Loaded("finances"), "expense")
        IN  /\ totals.width.k = "fin"
            /\ 0 <= totals.width.n
            /\ totals.width.n <= 100 * totals.width.d
            /\ IF income + expense <= 0
               THEN totals.width.n = 0
               ELSE totals.width.n * (income + expense) = expense * 100 * totals.width.d

\* The collection a fresh load would read from key after the step.
LoadedNext(key) == getStorage(storage', key, << >>)

\* list with the item at position i taken out and the others in order.
Without(list, i) == [j \in 1..(Len(list) - 1) |-> IF j < i THEN list[j] ELSE list[j + 1]]

\* The item drawn at position i of the day key.
CardAt(key, i) == cards[CHOOSE c \in 1..Len(cards) : cards[c].k = key].v[i]

\* A delete handler ran and spliced.
DeleteStep(op) == last'.op = op /\ last'.out \in {"ok", "threw"}

C13_EveryProjectHasTasks ==
    \A i \in 1..Len(Loaded("projects")) : "tasks" \in DOMAIN Loaded("projects")[i]

\* What a date-keyed store holds under key.
EntriesAt(map, key) ==
    IF \E e \in 1..Len(map) : map[e].k = key
    THEN [has |-> TRUE, v |-> map[CHOOSE e \in 1..Len(map) : map[e].k = key].v]
    ELSE [has |-> FALSE, v |-> << >>]

NoKey == << >>

\* The date key a step's handler works on (NoKey: none).
TouchedKey(addOp, toggleOp, deleteOp, addedKey, before) ==
    IF last'.op = addOp /\ last'.out = "ok" THEN addedKey
    ELSE IF last'.op \in {toggleOp, deleteOp} /\ last'.out = "ok"
         THEN before[last'.args.e].k
    ELSE NoKey

\* Every key of the store other than touched holds after the step what it
\* held before.
OtherKeysKept(before, after, touched) ==
    \A e \in 1..Len(before) :
        before[e].k # touched =>
            EntriesAt(after, before[e].k) = [has |-> TRUE, v |-> before[e].v]

\* A date key outside the days the timetable shows after the step.
OutsideWindow(key) == DayOf(key) < today' \/ DayOf(key) >= today' + WindowDays

\* C14.  A timetable or calendar add, toggle or delete on one date key
\* leaves what is persisted under every other date key as it was, and no
\* step with the timetable open changes what is persisted under a date
\* outside the days shown.
C14_OtherDatesUntouched ==
    [][ /\ OtherKeysKept(Loaded("timetableEvents"), LoadedNext("timetableEvents"),
               TouchedKey("addEntry", "toggleEntry", "deleteEntry",
                          IF last'.op = "addEntry" /\ last'.out = "ok"
                          THEN formatDate(today + last'.args.offset) ELSE NoKey,
                          Loaded("timetableEvents")))
        /\ OtherKeysKept(Loaded("calendarEvents"), LoadedNext("calendarEvents"),
               TouchedKey("addEvent", "none", "deleteEvent",
                          IF last'.op = "addEvent" /\ last'.out = "ok"
                          THEN CalendarDateStr(last'.args.day) ELSE NoKey,
                          Loaded("calendarEvents")))
        /\ page' = "timetable" =>
               \A e \in 1..Len(Loaded("timetableEvents")) :
                   OutsideWindow(Loaded("timetableEvents")[e].k) =>
                       EntriesAt(LoadedNext("timetableEvents"),
                                 Loaded("timetableEvents")[e].k)
                           = [has |-> TRUE, v |-> Loaded("timetableEvents")[e].v] ]_vars

\* An entry was added on the timetable while the store holds an entry of
\* a day that is no longer shown.
C14_AddedBesideHiddenDay ==
    /\ page = "timetable" /\ last.op = "addEntry" /\ last.out = "ok"
    /\ \E e \in 1..Len(Loaded("timetableEvents")) :
           /\ DayOf(Loaded("timetableEvents")[e].k) < today
           /\ Loaded("timetableEvents")[e].v # << >>

\* The handlers of the five collection pages.
PageActions ==
    {"addNote", "deleteNote", "editNote", "addProject", "addTask", "toggleTask",
     "submitFinance", "deleteFinance", "addEntry", "toggleEntry", "deleteEntry",
     "addEvent", "deleteEvent"}

\* C15.  After every action on the notes, projects, finances, timetable or
\* calendar page, cancelled and rejected ones included, what is persisted
\* under the page's key equals the page's in-memory collection.
C15_StoreEqualsMirror ==
    last.op \in PageActions =>
        /\ page = "notes" => Loaded("notes") = notes
        /\ page = "projects" => Loaded("projects") = projects
        /\ page = "finances" => Loaded("finances") = finances
        /\ page = "timetable" => Loaded("timetableEvents") = ttEvents
        /\ page = "calendar" => Loaded("calendarEvents") = calEvents

\* A handler of the first tab's notes page wrote the store.
TabAWrote == page' = "notes" /\ last'.op \in {"addNote", "deleteNote", "editNote"}
             /\ last'.out # "cancel"

\* A handler of the second tab's notes page wrote the store.
TabBWrote == last'.op \in {"tabBAddNote", "tabBDeleteNote", "tabBEditNote"}
             /\ last'.out # "cancel"

\* C16.  With the notes page open in two tabs, a mutation in one tab
\* persists exactly that tab's in-memory notes, built from what the tab held
\* before and its own input whatever the other tab has stored meanwhile, and
\* leaves the other tab's in-memory notes as they were: the later write
\* replaces the earlier one, nothing is merged and nothing is detected.
C16_LastWriteWins ==
    [][ /\ TabBWrote =>
             /\ LoadedNext("notes") = tabB'.notes
             /\ notes' = notes
             /\ last'.op = "tabBAddNote" =>
                    tabB'.notes = Append(tabB.notes,
                                         NewNote(last'.args.title, last'.args.content))
             /\ last'.op = "tabBDeleteNote" =>
                    tabB'.notes = Without(tabB.notes, last'.args.idx)
        /\ TabAWrote =>
             /\ LoadedNext("notes") = notes'
             /\ tabB' = tabB ]_vars

\* The second tab added a note after the first tab had added one that the
\* second tab never read: the store holds the second tab's notes and the
\* first tab's note is in none of them.
C16_FirstTabNoteLost ==
    /\ page = "notes" /\ tabB.open
    /\ last.op = "tabBAddNote" /\ last.out = "ok"
    /\ Loaded("notes") = tabB.notes
    /\ \E i \in 1..Len(notes) : ~Holds(Loaded("notes"), notes[i])

====
